---- MODULE Spec2Model ----
(***************************************************************************)
(* Model of src/async/async_context.ts: the context stack kept in step     *)
(* with the promise hooks (init / before / after / promiseResolve), the    *)
(* AsyncContext bracketing operation runInScope, the hook registry of      *)
(* AsyncHook and the AsyncLocal value slot (get / set / withValue); and of *)
(* the node:async_hooks adapter built on it: the AsyncResource constructor *)
(* and AsyncLocalStorage.                                                  *)
(*                                                                         *)
(* Context objects are numbered 0..MaxCtx in order of creation; object 0   *)
(* is topLevelContext.  User code is a sequence of steps; the calls that   *)
(* are in progress (a promise job between its before and after hook, a     *)
(* runInScope or withValue whose callback has not finished) are the        *)
(* records of `frames`, innermost last.                                    *)
(***************************************************************************)
EXTENDS Integers, Sequences, FiniteSets, TLC

\* ------------------------------------------------------------- bounds
\* Context objects created besides topLevelContext.
MaxCtx == 2
\* Calls in progress at once (promise job, runInScope, withValue).
MaxDepth == 2
\* Length of the hook registry.
MaxHooks == 2
\* Length of the context stack.
MaxStack == 4

\* ------------------------------------------------------------- inputs
Ctx == 0..MaxCtx
\* An absent context reference (undefined).
NoCtx == -1
None == "none"
Absent == "absent"
\* "undefined" is a value like any other: a WeakMap may hold it.
Undefined == "undefined"
\* The code only stores and returns values (WeakMap has / get / set), so
\* two of them, both different from the initial value, tell all reads apart.
Values == {Undefined, "a"}
Locals == {"L1", "L2"}
\* The AsyncLocal of the propagation core.
CoreLocals == {"L1"}
Results == {"r"}
Errors == {"e"}
Hooks == {"H1", "H2"}
Phases == {"init", "before", "after", "promiseResolve"}

\* The value each of two AsyncLocal instances is given when both are in
\* play: one each, different from the other's and from the initial values.
LocalValues == [l \in Locals |-> IF l = "L1" THEN {"a"} ELSE {"b"}]

\* #initialValue of each AsyncLocal (constructor argument).
initialValue == [l \in Locals |-> IF l = "L1" THEN "foo" ELSE Undefined]

\* The callbacks each hook bundle implements (AsyncHookCallbacks).
hookCallbacks ==
    [h \in Hooks |-> IF h = "H1" THEN Phases ELSE {"before", "after"}]

VARIABLES
    contextStack,            \* const contextStack: Context[]
    parentContext,           \* context[parentContextSymbol]
    asyncLocalData,          \* context[asyncLocalDataSymbol]
    asyncHookCallbacks,      \* const asyncHookCallbacks: AsyncHookCallbacks[]
    promiseTrackingEnabled,  \* let promiseTrackingEnabled
    nextObj,                 \* context objects allocated so far
    kind,                    \* what each context object is
    locals,                  \* AsyncLocal instances constructed
    frames,                  \* calls in progress, innermost last
    outcome,                 \* completion of the call that just finished
    dispatched,              \* hook fan-outs of the last step
    creator,                 \* history: the code that created each context
    written,                 \* history: last value each context's code set
    scoped,                  \* history: the value withValue made each scope with
    setPromiseHooksCalls,    \* calls of Deno.core.setPromiseHooks so far
    wrapped,                 \* objects some AsyncContext has as contextObject
    enabled,                 \* AsyncLocalStorage.#enabled
    disabledSince,           \* history: scopes made before the last disable()
    resource                 \* the last AsyncResource construction

vars == <<contextStack, parentContext, asyncLocalData, asyncHookCallbacks,
          promiseTrackingEnabled, nextObj, kind, locals, frames, outcome,
          dispatched, creator, written, scoped, setPromiseHooksCalls,
          wrapped, enabled, disabledSince, resource>>

\* The state of the node:async_hooks adapter.
adapterVars == <<enabled, disabledSince, resource>>

\* ------------------------------------------------------------ helpers
Last(s) == s[Len(s)]
Front(s) == SubSeq(s, 1, Len(s) - 1)
Created == 0..(nextObj - 1)

\* The context whose code is executing: the innermost call in progress,
\* and topLevelContext when none is (module code, a timer callback).
Running == IF frames = <<>> THEN 0 ELSE Last(frames).ctx

\* ------------------------------------------------ AsyncContext.current
\* A slip: at(0), the bottom of the stack, for at(-1).
current_Bottom(stack) == IF Len(stack) = 0 THEN NoCtx ELSE stack[1]

\* contextStack.at(-1): undefined on an empty array.
current(stack) == IF Len(stack) = 0 THEN NoCtx ELSE stack[Len(stack)]

\* A slip: every context is made a child of the bottom context.
capturedParent_Bottom(stack) == IF Len(stack) = 0 THEN NoCtx ELSE stack[1]

\* onInitContext, line 22: the parent a new context captures.
capturedParent(stack) == current(stack)

\* ------------------------------------------------------ stack handlers
\* A slip: the context is put under the top of the stack.
pushContext_Under(stack, context) ==
    IF Len(stack) = 0 THEN <<context>>
    ELSE Append(Append(Front(stack), context), Last(stack))

\* A slip: the push is left out.
pushContext_Skip(stack, context) == stack

\* onBeforeContext, line 32.
pushContext(stack, context) == Append(stack, context)

\* A slip: a bare pop, nothing is pushed back.
popContext_Always(stack, context) ==
    IF Len(stack) = 0 THEN stack ELSE Front(stack)

\* A slip: the test is inverted, so the popped context is pushed back
\* exactly when it is `context`.
popContext_Keep(stack, context) ==
    IF Len(stack) = 0 THEN stack
    ELSE IF Last(stack) = context THEN stack ELSE Front(stack)

\* onAfterContext, lines 42-45: pop, and push the popped context back when
\* it is not `context`.
popContext(stack, context) ==
    IF Len(stack) = 0 THEN stack
    ELSE LET previousContext == Last(stack)
             popped == Front(stack)
         IN  IF previousContext # context
             THEN Append(popped, previousContext)
             ELSE popped

\* ------------------------------------------------------- hook registry
\* AsyncHook.enable, line 120.
enableHook(reg, h) == Append(reg, h)

indexOf(reg, h) ==
    IF \E i \in 1..Len(reg) : reg[i] = h
    THEN CHOOSE i \in 1..Len(reg) :
            reg[i] = h /\ \A j \in 1..(i - 1) : reg[j] # h
    ELSE 0

\* AsyncHook.disable, lines 124-127: splice out the first occurrence.
disableHook(reg, h) ==
    LET index == indexOf(reg, h)
    IN  IF index >= 1
        THEN SubSeq(reg, 1, index - 1) \o SubSeq(reg, index + 1, Len(reg))
        ELSE reg

\* What a hook callback does when it is invoked: nothing, or a call of
\* enable() / disable() on some AsyncHook.
NoAct == [op |-> "none", hook |-> "H1"]
Acts == {NoAct} \cup [op : {"enable", "disable"}, hook : Hooks]
NoBeh == [h \in Hooks |-> NoAct]
\* One behaviour per dispatch: at most one bundle's callback acts.
Behs == {NoBeh} \cup
        UNION {{[NoBeh EXCEPT ![h] = a] : a \in Acts \ {NoAct}} : h \in Hooks}
BehChoices(reg) == IF reg = <<>> THEN {NoBeh} ELSE Behs

\* A hook callback that throws, and what it throws.
RaiseAct == [op |-> "raise", hook |-> "H1"]
HookError == "hookError"
\* One behaviour per dispatch: at most one bundle's callback throws.
RaiseBehs == {NoBeh} \cup {[NoBeh EXCEPT ![h] = RaiseAct] : h \in Hooks}
RaiseChoices(reg) == IF reg = <<>> THEN {NoBeh} ELSE RaiseBehs

applyAct(reg, act) ==
    CASE act.op = "enable" ->
            IF Len(reg) < MaxHooks THEN enableHook(reg, act.hook) ELSE reg
      [] act.op = "disable" -> disableHook(reg, act.hook)
      [] OTHER -> reg

\* for (const { phase } of asyncHookCallbacks) if (phase) phase(...):
\* the array iterator reads the live array at the next index each round;
\* nothing catches what a callback throws, so the loop ends there.
RECURSIVE dispatchFrom(_, _, _, _, _)
dispatchFrom(reg, i, phase, beh, log) ==
    IF i > Len(reg) THEN [reg |-> reg, log |-> log, raised |-> FALSE]
    ELSE LET h == reg[i]
         IN  IF phase \in hookCallbacks[h]
             THEN IF beh[h].op = "raise"
                  THEN [reg |-> reg, log |-> Append(log, h), raised |-> TRUE]
                  ELSE dispatchFrom(applyAct(reg, beh[h]), i + 1, phase, beh,
                                    Append(log, h))
             ELSE dispatchFrom(reg, i + 1, phase, beh, log)

dispatch(reg, phase, beh) == dispatchFrom(reg, 1, phase, beh, <<>>)

\* The record kept of one fan-out that found a bundle registered.
Fanout(reg, phase, beh) ==
    IF reg = <<>> THEN <<>>
    ELSE <<[phase |-> phase, arrival |-> reg,
            invoked |-> dispatch(reg, phase, beh).log]>>

\* ----------------------------------------------------------- AsyncLocal
\* get value, lines 176-188.  `fuel` bounds the walk; a walk that has not
\* ended after visiting more contexts than exist never ends.
Diverges == "diverges"

\* A slip: get(this) !== undefined for has(this), which takes a binding
\* of undefined for no binding.
RECURSIVE getFrom_NoHas(_, _, _, _, _)
getFrom_NoHas(context, l, data, parent, fuel) ==
    IF context = NoCtx THEN initialValue[l]
    ELSE IF fuel = 0 THEN Diverges
    ELSE IF data[context][l] # Absent /\ data[context][l] # Undefined
         THEN data[context][l]
    ELSE getFrom_NoHas(parent[context], l, data, parent, fuel - 1)

RECURSIVE getFrom(_, _, _, _, _)
getFrom(context, l, data, parent, fuel) ==
    IF context = NoCtx THEN initialValue[l]
    ELSE IF fuel = 0 THEN Diverges
    ELSE IF data[context][l] # Absent THEN data[context][l]
    ELSE getFrom(parent[context], l, data, parent, fuel - 1)

getValue(l) ==
    getFrom(current(contextStack), l, asyncLocalData, parentContext, MaxCtx + 2)

\* A slip: the value is written to the bottom context, which every flow
\* shares.
setValue_Shared(data, context, l, newValue) ==
    [data EXCEPT ![0][l] = newValue]

\* A slip: one slot for the context, whatever the AsyncLocal.
setValue_AllLocals(data, context, l, newValue) ==
    [data EXCEPT ![context] = [k \in DOMAIN data[context] |-> newValue]]

\* A slip: the value is written to the context and to its parent.
setValue_Parent(data, context, l, newValue) ==
    [c \in DOMAIN data |->
        IF c = context \/ c = parentContext[context]
        THEN [data[c] EXCEPT ![l] = newValue] ELSE data[c]]

\* set value, lines 190-198.
setValue(data, context, l, newValue) ==
    [data EXCEPT ![context][l] = newValue]

\* ------------------------------------------------------- AsyncResource
\* A JavaScript value where a number is expected.  form "int": the
\* integer v; "frac": v + 1/2; "big": v * 2^60, beyond
\* Number.MAX_SAFE_INTEGER; "nan": NaN; "function": a function object.
Num(v, form) == [v |-> v, form |-> form]
Nums ==
    {Num(v, "int") : v \in {-2, -1, 0, 7}}
        \cup {Num(-2, "frac"), Num(0, "frac"), Num(1, "big"), Num(-1, "big"),
              Num(0, "nan")}

\* Number.isSafeInteger(x): false for whatever is not a number.
isSafeInteger(x) == x.form = "int"

\* n < k, for an integer k.
lessThan(n, k) ==
    CASE n.form \in {"int", "frac"} -> n.v < k
      [] n.form = "big" -> n.v < 0
      [] OTHER -> FALSE

\* The first argument of new AsyncResource(type, opts).
NotAString == "#notAString"
Types == {"", "T", NotAString}

\* The second argument: a number, or an object that has triggerAsyncId or
\* has not ({} is the default).
Opts ==
    {[isNumber |-> TRUE, given |-> TRUE, n |-> n] : n \in Nums}
        \cup {[isNumber |-> FALSE, given |-> TRUE, n |-> n] : n \in Nums}
        \cup {[isNumber |-> FALSE, given |-> FALSE, n |-> Num(0, "int")]}

\* getAsyncId, part_001 lines 34-36, with the init hook of lines 47-51
\* enabled since the adapter was loaded: topLevelContext has id 1 (line
\* 44) and the contexts are numbered from 2 as they are created.
getAsyncId(context) == IF context = NoCtx THEN 0 ELSE context + 1

\* executionAsyncId(), part_001 lines 113-115.
executionAsyncId(stack) == Num(getAsyncId(current(stack)), "int")

\* The exported function triggerAsyncId of part_001 lines 117-119, as a
\* value: the identifier triggerAsyncId in the constructor names it.
triggerAsyncIdFunction == Num(0, "function")

\* part_001 lines 137-142: this.#triggerAsyncId.
resolvedTrigger(opts, stack) ==
    IF ~opts.isNumber
    THEN IF opts.given THEN opts.n ELSE executionAsyncId(stack)
    ELSE opts.n

\* part_001 lines 134-150: the error the constructor throws, None when it
\* goes on to line 156.
constructorError(type, opts, stack) ==
    IF type = NotAString THEN "ERR_INVALID_ARG_TYPE"
    ELSE IF \/ ~isSafeInteger(triggerAsyncIdFunction)
            \/ lessThan(resolvedTrigger(opts, stack), -1)
         THEN "ERR_INVALID_ASYNC_ID"
    ELSE IF type = NotAString \/ type = "" THEN "ERR_ASYNC_TYPE"
    ELSE None

\* No AsyncResource has been constructed yet.
NoResource ==
    [type |-> None, status |-> None, error |-> None,
     trigger |-> Num(0, "int"), ctx |-> NoCtx, made |-> 0,
     entry |-> <<>>, exit |-> <<>>]

\* ------------------------------------------------------------ outcomes
\* The record of the operation the last step completed.  For a bracketing
\* call: what its callback did (cbStatus, cbVal), what the call handed to
\* its caller (status, val), the context stack when it was called and when
\* it completed, and for withValue its AsyncLocal and what that read when
\* the call was made.  For a set: the context written, the AsyncLocal and
\* the value.
NoOutcome ==
    [op |-> None, ctx |-> NoCtx, status |-> None, val |-> None,
     cbStatus |-> None, cbVal |-> None, entry |-> <<>>, exit |-> <<>>,
     local |-> None, pre |-> None]

\* The record of an operation that a hook callback made fail: the stack
\* when the operation started and when its failure reached the caller.
HookFailure(op, context, entry, exit) ==
    [NoOutcome EXCEPT !.op = op, !.ctx = context, !.status = "raise",
                      !.val = HookError, !.entry = entry, !.exit = exit]

\* A slip: a catch block that swallows the failure of the callback.
runInScopeCompletion_Swallow(cb, fin) ==
    IF fin.status = "raise" THEN fin ELSE [status |-> "return", val |-> None]

\* runInScope, lines 100-104: try { return callback() } finally { ... }.
\* The completion of the try block stands unless the finally block raises.
runInScopeCompletion(cb, fin) ==
    IF fin.status = "raise" THEN fin ELSE cb

\* ------------------------------------------------ enablePromiseTracking
\* A slip: the guard on promiseTrackingEnabled is left out.
enablePromiseTracking_NoGuard(tracking, calls) ==
    [tracking |-> TRUE, calls |-> calls + 1]

\* enablePromiseTracking, lines 64-77: the flag and the number of calls of
\* Deno.core.setPromiseHooks after it has run.
enablePromiseTracking(tracking, calls) ==
    IF ~tracking
    THEN [tracking |-> TRUE, calls |-> calls + 1]
    ELSE [tracking |-> tracking, calls |-> calls]

\* --------------------------------------------------------------- Init
\* Module initialisation, lines 108-109: new AsyncContext() sets the
\* parent of topLevelContext to current() of the empty stack (undefined),
\* then the context is pushed.
Init ==
    /\ contextStack = <<0>>
    /\ parentContext = [c \in Ctx |-> NoCtx]
    /\ asyncLocalData = [c \in Ctx |-> [l \in Locals |-> Absent]]
    /\ asyncHookCallbacks = <<>>
    /\ promiseTrackingEnabled = FALSE
    /\ nextObj = 1
    /\ kind = [c \in Ctx |-> IF c = 0 THEN "root" ELSE None]
    /\ locals = {}
    /\ frames = <<>>
    /\ outcome = NoOutcome
    /\ dispatched = <<>>
    /\ creator = [c \in Ctx |-> NoCtx]
    /\ written = [c \in Ctx |-> [l \in Locals |-> Absent]]
    /\ scoped = [c \in Ctx |-> [l \in Locals |-> Absent]]
    /\ setPromiseHooksCalls = 0
    /\ wrapped = {}
    /\ enabled = FALSE
    /\ disabledSince = {}
    /\ resource = NoResource

\* ------------------------------------------------------------ actions
Completion(status, val) == [status |-> status, val |-> val]
Normal == Completion("return", None)

\* new AsyncLocal(value), lines 171-174 (enablePromiseTracking, 64-77).
NewAsyncLocal(l) ==
    /\ l \notin locals
    /\ locals' = locals \cup {l}
    /\ LET t == enablePromiseTracking(promiseTrackingEnabled,
                                      setPromiseHooksCalls)
       IN  /\ promiseTrackingEnabled' = t.tracking
           /\ setPromiseHooksCalls' = t.calls
    /\ outcome' = NoOutcome
    /\ dispatched' = <<>>
    /\ UNCHANGED <<contextStack, parentContext, asyncLocalData,
                   asyncHookCallbacks, nextObj, kind, frames, creator,
                   written, scoped, wrapped, adapterVars>>

\* onInitContext(context), lines 21-29, on a new context object of kind k.
onInitContext(k, beh) ==
    /\ nextObj <= MaxCtx
    /\ parentContext' =
          [parentContext EXCEPT ![nextObj] = capturedParent(contextStack)]
    /\ LET init == dispatch(asyncHookCallbacks, "init", beh)
       IN  /\ asyncHookCallbacks' = init.reg
           \* when an init callback throws, so does the constructor: the
           \* caller never holds the new object
           /\ kind' = [kind EXCEPT ![nextObj] =
                                     IF init.raised THEN "lost" ELSE k]
           /\ outcome' = IF init.raised
                         THEN HookFailure("new", nextObj, contextStack,
                                          contextStack)
                         ELSE NoOutcome
    /\ dispatched' = Fanout(asyncHookCallbacks, "init", beh)
    /\ creator' = [creator EXCEPT ![nextObj] = Running]
    /\ nextObj' = nextObj + 1
    /\ UNCHANGED <<contextStack, asyncLocalData, promiseTrackingEnabled,
                   setPromiseHooksCalls, wrapped, locals, frames, written,
                   scoped>>

InitContext(k, beh) ==
    /\ onInitContext(k, beh)
    /\ UNCHANGED adapterVars

\* new AsyncContext(), lines 82-85, called by user code.
NewAsyncContext(beh) == InitContext("user", beh)

\* The init promise hook: the scheduler registers a deferred unit while
\* some code runs.  Wired by setPromiseHooks, line 70.
PromiseInit(beh) ==
    /\ promiseTrackingEnabled
    /\ InitContext("promise", beh)

\* onBeforeContext(context), lines 31-39, entering a call of kind op.
BeforeContext(op, context, beh) ==
    /\ Len(contextStack) < MaxStack
    /\ contextStack' = pushContext(contextStack, context)
    /\ dispatched' = Fanout(asyncHookCallbacks, "before", beh)
    /\ LET before == dispatch(asyncHookCallbacks, "before", beh)
       IN  /\ asyncHookCallbacks' = before.reg
           \* when a before callback throws, the call ends there: line 99 is
           \* outside the try block, the callback of the call never runs
           /\ frames' = IF before.raised THEN frames
                        ELSE Append(frames,
                                    [op |-> op, ctx |-> context,
                                     entry |-> contextStack,
                                     local |-> None, pre |-> None])
           /\ outcome' = IF before.raised
                         THEN HookFailure(op, context, contextStack,
                                          contextStack')
                         ELSE NoOutcome
    /\ UNCHANGED <<parentContext, asyncLocalData, promiseTrackingEnabled,
                   setPromiseHooksCalls, wrapped, adapterVars,
                   nextObj, kind, locals, creator, written, scoped>>

\* The before promise hook: the scheduler starts a job of promise p.  Jobs
\* are run from the microtask queue, when no call is in progress.
JobBefore(p, beh) ==
    /\ frames = <<>>
    /\ MaxDepth >= 1
    /\ p \in Created
    /\ kind[p] = "promise"
    /\ BeforeContext("job", p, beh)

\* runInScope, line 99: user code enters the scope of an AsyncContext it
\* holds, whose contextObject is c.
RunInScopeEnter(c, beh) ==
    /\ Len(frames) < MaxDepth
    /\ c \in Created
    /\ kind[c] = "user" \/ c \in wrapped
    /\ BeforeContext("runInScope", c, beh)

\* withValue, lines 205-207: new AsyncContext(), runInScope, this.value =
\* value; the callback then runs.
withValue(l, value, behInit, behBefore) ==
    /\ l \in locals
    /\ Len(frames) < MaxDepth
    /\ Len(contextStack) < MaxStack
    /\ nextObj <= MaxCtx
    /\ LET context == nextObj
           init == dispatch(asyncHookCallbacks, "init", behInit)
           before == dispatch(init.reg, "before", behBefore)
           \* line 205 threw / line 99 threw / the callback of line 206 runs
           entered == ~init.raised
           running == entered /\ ~before.raised
           stack == IF entered THEN pushContext(contextStack, context)
                    ELSE contextStack
       IN  /\ parentContext' =
                 [parentContext EXCEPT ![context] = capturedParent(contextStack)]
           /\ contextStack' = stack
           /\ asyncHookCallbacks' = IF entered THEN before.reg ELSE init.reg
           /\ dispatched' = Fanout(asyncHookCallbacks, "init", behInit)
                              \o (IF entered
                                  THEN Fanout(init.reg, "before", behBefore)
                                  ELSE <<>>)
           /\ asyncLocalData' =
                 IF running
                 THEN setValue(asyncLocalData, current(stack), l, value)
                 ELSE asyncLocalData
           /\ kind' = [kind EXCEPT ![context] =
                                     IF entered THEN "scope" ELSE "lost"]
           /\ creator' = [creator EXCEPT ![context] = Running]
           /\ written' = IF running
                         THEN [written EXCEPT ![context][l] = value]
                         ELSE written
           /\ scoped' = IF running
                        THEN [scoped EXCEPT ![context][l] = value]
                        ELSE scoped
           /\ frames' = IF running
                        THEN Append(frames,
                                    [op |-> "withValue", ctx |-> context,
                                     entry |-> contextStack,
                                     local |-> l, pre |-> getValue(l)])
                        ELSE frames
           /\ nextObj' = nextObj + 1
           /\ outcome' = IF running THEN NoOutcome
                         ELSE HookFailure("withValue", context, contextStack,
                                          stack)
    /\ UNCHANGED <<promiseTrackingEnabled, setPromiseHooksCalls, wrapped,
                   locals>>

\* withValue called by user code.
WithValueEnter(l, value, behInit, behBefore) ==
    /\ withValue(l, value, behInit, behBefore)
    /\ UNCHANGED adapterVars

\* set value, lines 190-198, by the running code.
SetValue(l, newValue) ==
    /\ l \in locals
    /\ current(contextStack) # NoCtx
    /\ asyncLocalData' =
          setValue(asyncLocalData, current(contextStack), l, newValue)
    /\ written' = [written EXCEPT ![Running][l] = newValue]
    /\ outcome' = [NoOutcome EXCEPT !.op = "set",
                                    !.ctx = current(contextStack),
                                    !.local = l, !.val = newValue]
    /\ dispatched' = <<>>
    /\ UNCHANGED <<contextStack, parentContext, asyncHookCallbacks,
                   promiseTrackingEnabled,
                   setPromiseHooksCalls, wrapped, adapterVars, nextObj, kind, locals, frames,
                   creator, scoped>>

\* The calls in progress but the i-th.
dropFrame(fs, i) == SubSeq(fs, 1, i - 1) \o SubSeq(fs, i + 1, Len(fs))

\* The innermost of the calls in progress whose indices are in S, 0 when
\* S is empty.
innermost(S) == IF S = {} THEN 0 ELSE CHOOSE i \in S : \A j \in S : j <= i

IsCallFrame(f) == f.op \in {"runInScope", "withValue"}
CallFrames(fs) == {i \in DOMAIN fs : IsCallFrame(fs[i])}

\* onAfterContext(context), lines 41-52, leaving the i-th call in progress.
AfterContext(i, beh) ==
    /\ contextStack' = popContext(contextStack, frames[i].ctx)
    /\ asyncHookCallbacks' = dispatch(asyncHookCallbacks, "after", beh).reg
    /\ dispatched' = Fanout(asyncHookCallbacks, "after", beh)
    /\ frames' = dropFrame(frames, i)
    /\ UNCHANGED <<parentContext, asyncLocalData, promiseTrackingEnabled,
                   setPromiseHooksCalls, wrapped, adapterVars,
                   nextObj, kind, locals, creator, written, scoped>>

\* runInScope, lines 100-104: the callback returns val or raises it, the
\* finally block runs onAfterContext, the completion goes to the caller.
\* The call is the i-th in progress.
callbackEnds(i, status, val, beh) ==
    /\ LET after == dispatch(asyncHookCallbacks, "after", beh)
           fin == IF after.raised THEN Completion("raise", HookError)
                  ELSE Normal
           done == runInScopeCompletion(Completion(status, val), fin)
       IN  /\ AfterContext(i, beh)
           /\ outcome' = [op |-> frames[i].op, ctx |-> frames[i].ctx,
                          status |-> done.status, val |-> done.val,
                          cbStatus |-> status, cbVal |-> val,
                          entry |-> frames[i].entry,
                          exit |-> contextStack',
                          local |-> frames[i].local,
                          pre |-> frames[i].pre]

\* The callback of the innermost call in progress ends.
CallbackEnds(status, val, beh) ==
    /\ frames # <<>>
    /\ IsCallFrame(Last(frames))
    /\ callbackEnds(Len(frames), status, val, beh)

\* The callback of the innermost runInScope / withValue in progress ends,
\* whether or not the scheduler has ended the jobs it started during it.
CallbackEndsOpen(status, val, beh) ==
    /\ innermost(CallFrames(frames)) # 0
    /\ callbackEnds(innermost(CallFrames(frames)), status, val, beh)

\* The after promise hook: the job of the promise has run, to its end or to
\* a failure.
JobAfter(beh) ==
    /\ frames # <<>>
    /\ Last(frames).op = "job"
    /\ AfterContext(Len(frames), beh)
    /\ outcome' = [NoOutcome EXCEPT !.op = "job", !.ctx = Last(frames).ctx,
                                    !.entry = Last(frames).entry,
                                    !.exit = contextStack']

\* new AsyncContext(contextObject), lines 82-85, on an object that exists
\* already: line 22 runs for it again.
NewAsyncContextOn(obj, beh) ==
    /\ obj \in Created
    /\ parentContext' =
          [parentContext EXCEPT ![obj] = capturedParent(contextStack)]
    /\ LET init == dispatch(asyncHookCallbacks, "init", beh)
       IN  /\ asyncHookCallbacks' = init.reg
           /\ wrapped' = IF init.raised THEN wrapped ELSE wrapped \cup {obj}
           /\ outcome' = IF init.raised
                         THEN HookFailure("new", obj, contextStack,
                                          contextStack)
                         ELSE NoOutcome
    /\ dispatched' = Fanout(asyncHookCallbacks, "init", beh)
    /\ UNCHANGED <<contextStack, asyncLocalData, promiseTrackingEnabled,
                   setPromiseHooksCalls, nextObj, kind, locals, frames,
                   creator, written, scoped, adapterVars>>

\* The before promise hook, delivered at any moment.
RawBefore(p, beh) ==
    /\ Len(frames) < MaxDepth
    /\ p \in Created
    /\ kind[p] = "promise"
    /\ BeforeContext("job", p, beh)

IsJobOf(p, f) == f.op = "job" /\ f.ctx = p
JobFramesOf(p, fs) == {i \in DOMAIN fs : IsJobOf(p, fs[i])}

\* The after promise hook, delivered at any moment for any promise: in
\* the middle of another job, or with no before hook delivered.
RawAfter(p, beh) ==
    /\ p \in Created
    /\ kind[p] = "promise"
    /\ contextStack' = popContext(contextStack, p)
    /\ asyncHookCallbacks' = dispatch(asyncHookCallbacks, "after", beh).reg
    /\ dispatched' = Fanout(asyncHookCallbacks, "after", beh)
    /\ LET i == innermost(JobFramesOf(p, frames))
       IN  frames' = IF i = 0 THEN frames ELSE dropFrame(frames, i)
    /\ outcome' = [NoOutcome EXCEPT !.op = "after", !.ctx = p,
                                    !.entry = contextStack,
                                    !.exit = contextStack']
    /\ UNCHANGED <<parentContext, asyncLocalData, promiseTrackingEnabled,
                   setPromiseHooksCalls, wrapped, adapterVars, nextObj, kind,
                   locals, creator, written, scoped>>

\* The promiseResolve promise hook, lines 54-60.
PromiseResolve(p, beh) ==
    /\ p \in Created
    /\ kind[p] = "promise"
    /\ asyncHookCallbacks' =
          dispatch(asyncHookCallbacks, "promiseResolve", beh).reg
    /\ dispatched' = Fanout(asyncHookCallbacks, "promiseResolve", beh)
    /\ outcome' =
          IF dispatch(asyncHookCallbacks, "promiseResolve", beh).raised
          THEN HookFailure("promiseResolve", p, contextStack, contextStack)
          ELSE NoOutcome
    /\ UNCHANGED <<contextStack, parentContext, asyncLocalData,
                   promiseTrackingEnabled,
                   setPromiseHooksCalls, wrapped, adapterVars, nextObj, kind, locals, frames,
                   creator, written, scoped>>

\* AsyncHook.enable, lines 118-121.
Enable(h) ==
    /\ Len(asyncHookCallbacks) < MaxHooks
    /\ LET t == enablePromiseTracking(promiseTrackingEnabled,
                                      setPromiseHooksCalls)
       IN  /\ promiseTrackingEnabled' = t.tracking
           /\ setPromiseHooksCalls' = t.calls
    /\ asyncHookCallbacks' = enableHook(asyncHookCallbacks, h)
    /\ outcome' = NoOutcome
    /\ dispatched' = <<>>
    /\ UNCHANGED <<contextStack, parentContext, asyncLocalData, nextObj,
                   kind, locals, frames, creator, written, scoped, wrapped,
                   adapterVars>>

\* AsyncHook.disable, lines 123-128.
Disable(h) ==
    /\ asyncHookCallbacks' = disableHook(asyncHookCallbacks, h)
    /\ outcome' = NoOutcome
    /\ dispatched' = <<>>
    /\ UNCHANGED <<contextStack, parentContext, asyncLocalData,
                   promiseTrackingEnabled,
                   setPromiseHooksCalls, wrapped, adapterVars, nextObj, kind, locals, frames,
                   creator, written, scoped>>

\* --------------------------------------------------- AsyncLocalStorage
\* #asyncLocal, the AsyncLocal of the storage; its initial value is
\* undefined.
StoreLocal == "L2"

\* A slip: the test of #enabled is inverted.
getStore_Inverted == IF enabled THEN Undefined ELSE getValue(StoreLocal)

\* getStore, part_001 lines 228-230.
getStore == IF enabled THEN getValue(StoreLocal) ELSE Undefined

\* new AsyncLocalStorage(), part_001 lines 221-222.
NewAsyncLocalStorage ==
    /\ enabled = FALSE
    /\ NewAsyncLocal(StoreLocal)

\* run(value, callback), part_001 lines 236-243, up to the callback.
AlsRun(value, behInit, behBefore) ==
    /\ enabled' = TRUE
    /\ withValue(StoreLocal, value, behInit, behBefore)
    /\ UNCHANGED <<disabledSince, resource>>

\* exit(callback), part_001 lines 245-250, up to the callback.
AlsExit(behInit, behBefore) ==
    WithValueEnter(StoreLocal, Undefined, behInit, behBefore)

\* enterWith(value), part_001 lines 232-234.
AlsEnterWith(value) == SetValue(StoreLocal, value)

\* disable(), part_001 lines 224-226.
AlsDisable ==
    /\ StoreLocal \in locals
    /\ enabled' = FALSE
    /\ disabledSince' = {c \in Created : kind[c] = "scope"}
    /\ outcome' = NoOutcome
    /\ dispatched' = <<>>
    /\ UNCHANGED <<contextStack, parentContext, asyncLocalData,
                   asyncHookCallbacks, promiseTrackingEnabled,
                   setPromiseHooksCalls, wrapped, nextObj, kind, locals,
                   frames, creator, written, scoped, resource>>

\* ------------------------------------------------------- AsyncResource
\* new AsyncResource(type, opts), part_001 lines 133-159.
NewAsyncResource(type, opts, beh) ==
    LET error == constructorError(type, opts, contextStack)
        made == [type |-> type, status |-> "return", error |-> None,
                 trigger |-> resolvedTrigger(opts, contextStack),
                 ctx |-> nextObj, made |-> 1,
                 entry |-> contextStack, exit |-> contextStack]
    IN  IF error # None
        THEN /\ resource' = [made EXCEPT !.status = "raise",
                                         !.error = error,
                                         !.ctx = NoCtx, !.made = 0]
             /\ outcome' = NoOutcome
             /\ dispatched' = <<>>
             /\ UNCHANGED <<contextStack, parentContext, asyncLocalData,
                            asyncHookCallbacks, promiseTrackingEnabled,
                            setPromiseHooksCalls, wrapped, nextObj, kind,
                            locals, frames, creator, written, scoped,
                            enabled, disabledSince>>
        ELSE /\ onInitContext("user", beh)
             /\ resource' = made
             /\ UNCHANGED <<enabled, disabledSince>>

\* ------------------------------------------------------ specifications
\* The propagation core: contexts, scopes, jobs and AsyncLocal values.
Next ==
    \/ \E l \in CoreLocals : NewAsyncLocal(l)
    \/ \E beh \in BehChoices(asyncHookCallbacks) : NewAsyncContext(beh)
    \/ \E beh \in BehChoices(asyncHookCallbacks) : PromiseInit(beh)
    \/ \E p \in Ctx, beh \in BehChoices(asyncHookCallbacks) : JobBefore(p, beh)
    \/ \E beh \in BehChoices(asyncHookCallbacks) : JobAfter(beh)
    \/ \E c \in Ctx, beh \in BehChoices(asyncHookCallbacks) :
          RunInScopeEnter(c, beh)
    \/ \E l \in CoreLocals, v \in Values,
          b1 \in BehChoices(asyncHookCallbacks), b2 \in Behs :
          WithValueEnter(l, v, b1, b2)
    \/ \E l \in CoreLocals, v \in Values : SetValue(l, v)
    \/ \E r \in Results, beh \in BehChoices(asyncHookCallbacks) :
          CallbackEnds("return", r, beh)
    \/ \E e \in Errors, beh \in BehChoices(asyncHookCallbacks) :
          CallbackEnds("raise", e, beh)

Spec == Init /\ [][Next]_vars

\* The hook registry under the notifications: observers are enabled and
\* disabled, also from inside their own callbacks, while contexts are
\* created, entered, left and settled.
NextHooks ==
    \/ \E h \in Hooks : Enable(h)
    \/ \E h \in Hooks : Disable(h)
    \/ \E beh \in BehChoices(asyncHookCallbacks) : NewAsyncContext(beh)
    \/ \E beh \in BehChoices(asyncHookCallbacks) : PromiseInit(beh)
    \/ \E p \in Ctx, beh \in BehChoices(asyncHookCallbacks) : JobBefore(p, beh)
    \/ \E beh \in BehChoices(asyncHookCallbacks) : JobAfter(beh)
    \/ \E p \in Ctx, beh \in BehChoices(asyncHookCallbacks) :
          PromiseResolve(p, beh)
    \/ \E c \in Ctx, beh \in BehChoices(asyncHookCallbacks) :
          RunInScopeEnter(c, beh)
    \/ \E r \in Results, beh \in BehChoices(asyncHookCallbacks) :
          CallbackEnds("return", r, beh)

SpecHooks == Init /\ [][NextHooks]_vars

\* What wires the dispatcher: hooks enabled and disabled, also from inside
\* their init callbacks, and AsyncLocal instances constructed.
NextWiring ==
    \/ \E l \in Locals : NewAsyncLocal(l)
    \/ \E h \in Hooks : Enable(h)
    \/ \E h \in Hooks : Disable(h)
    \/ \E beh \in BehChoices(asyncHookCallbacks) : NewAsyncContext(beh)
    \/ \E beh \in BehChoices(asyncHookCallbacks) : PromiseInit(beh)

SpecWiring == Init /\ [][NextWiring]_vars

\* AsyncLocalStorage over the propagation core: run, exit, enterWith and
\* disable while promises are created and their jobs run.
NextStorage ==
    \/ NewAsyncLocalStorage
    \/ \E v \in Values, b1 \in BehChoices(asyncHookCallbacks), b2 \in Behs :
          AlsRun(v, b1, b2)
    \/ \E b1 \in BehChoices(asyncHookCallbacks), b2 \in Behs : AlsExit(b1, b2)
    \/ \E v \in Values : AlsEnterWith(v)
    \/ AlsDisable
    \/ \E beh \in BehChoices(asyncHookCallbacks) : PromiseInit(beh)
    \/ \E p \in Ctx, beh \in BehChoices(asyncHookCallbacks) : JobBefore(p, beh)
    \/ \E beh \in BehChoices(asyncHookCallbacks) : JobAfter(beh)
    \/ \E r \in Results, beh \in BehChoices(asyncHookCallbacks) :
          CallbackEnds("return", r, beh)
    \/ \E e \in Errors, beh \in BehChoices(asyncHookCallbacks) :
          CallbackEnds("raise", e, beh)

SpecStorage == Init /\ [][NextStorage]_vars

\* Hook callbacks that throw, in the operations user code calls and in
\* the promiseResolve notification.  What the scheduler does with a job
\* whose before or after hook threw is not in this source: jobs run with
\* callbacks that do not throw.
NextRaise ==
    \/ \E h \in Hooks : Enable(h)
    \/ \E l \in CoreLocals : NewAsyncLocal(l)
    \/ \E beh \in RaiseChoices(asyncHookCallbacks) : NewAsyncContext(beh)
    \/ PromiseInit(NoBeh)
    \/ \E p \in Ctx : JobBefore(p, NoBeh)
    \/ JobAfter(NoBeh)
    \/ \E p \in Ctx, beh \in RaiseChoices(asyncHookCallbacks) :
          PromiseResolve(p, beh)
    \/ \E c \in Ctx, beh \in RaiseChoices(asyncHookCallbacks) :
          RunInScopeEnter(c, beh)
    \/ \E l \in CoreLocals, v \in Values,
          b1 \in RaiseChoices(asyncHookCallbacks), b2 \in RaiseBehs :
          WithValueEnter(l, v, b1, b2)
    \/ \E r \in Results, beh \in RaiseChoices(asyncHookCallbacks) :
          CallbackEnds("return", r, beh)
    \/ \E e \in Errors, beh \in RaiseChoices(asyncHookCallbacks) :
          CallbackEnds("raise", e, beh)

SpecRaise == Init /\ [][NextRaise]_vars

\* Two AsyncLocal instances over the propagation core.
NextLocals ==
    \/ \E l \in Locals : NewAsyncLocal(l)
    \/ PromiseInit(NoBeh)
    \/ \E p \in Ctx : JobBefore(p, NoBeh)
    \/ JobAfter(NoBeh)
    \/ \E l \in Locals : \E v \in LocalValues[l] :
          WithValueEnter(l, v, NoBeh, NoBeh)
    \/ \E l \in Locals : \E v \in LocalValues[l] : SetValue(l, v)
    \/ \E r \in Results : CallbackEnds("return", r, NoBeh)

SpecLocals == Init /\ [][NextLocals]_vars

\* AsyncResource objects constructed at top level and inside scopes.
NextResource ==
    \/ \E type \in Types, opts \in Opts,
          beh \in BehChoices(asyncHookCallbacks) :
          NewAsyncResource(type, opts, beh)
    \/ \E beh \in BehChoices(asyncHookCallbacks) : NewAsyncContext(beh)
    \/ \E c \in Ctx, beh \in BehChoices(asyncHookCallbacks) :
          RunInScopeEnter(c, beh)
    \/ \E r \in Results, beh \in BehChoices(asyncHookCallbacks) :
          CallbackEnds("return", r, beh)

SpecResource == Init /\ [][NextResource]_vars

\* Notification cycles that nest: the scheduler starts a job while another
\* job or a scope is in progress, and ends the innermost one first.
NextNested ==
    \/ \E l \in CoreLocals : NewAsyncLocal(l)
    \/ \E beh \in BehChoices(asyncHookCallbacks) : NewAsyncContext(beh)
    \/ \E beh \in BehChoices(asyncHookCallbacks) : PromiseInit(beh)
    \/ \E p \in Ctx, beh \in BehChoices(asyncHookCallbacks) : RawBefore(p, beh)
    \/ \E beh \in BehChoices(asyncHookCallbacks) : JobAfter(beh)
    \/ \E c \in Ctx, beh \in BehChoices(asyncHookCallbacks) :
          RunInScopeEnter(c, beh)
    \/ \E r \in Results, beh \in BehChoices(asyncHookCallbacks) :
          CallbackEnds("return", r, beh)

SpecNested == Init /\ [][NextNested]_vars

\* Any sequence of the operations user code can call and of the
\* notifications: contexts made on objects that exist already, before and
\* after hooks in any order.
NextOpen ==
    \/ \E l \in CoreLocals : NewAsyncLocal(l)
    \/ \E beh \in BehChoices(asyncHookCallbacks) : NewAsyncContext(beh)
    \/ \E obj \in Ctx, beh \in BehChoices(asyncHookCallbacks) :
          NewAsyncContextOn(obj, beh)
    \/ \E beh \in BehChoices(asyncHookCallbacks) : PromiseInit(beh)
    \/ \E p \in Ctx, beh \in BehChoices(asyncHookCallbacks) : RawBefore(p, beh)
    \/ \E p \in Ctx, beh \in BehChoices(asyncHookCallbacks) : RawAfter(p, beh)
    \/ \E c \in Ctx, beh \in BehChoices(asyncHookCallbacks) :
          RunInScopeEnter(c, beh)
    \/ \E r \in Results, beh \in BehChoices(asyncHookCallbacks) :
          CallbackEndsOpen("return", r, beh)

SpecOpen == Init /\ [][NextOpen]_vars

\* ================================================================ claims
\* ------------------------------------------------------- logical flows
\* The flows are told from the history variables alone: who created a
\* context and what its code last set, whatever the context stack holds.
RECURSIVE flowFrom(_, _, _)
flowFrom(c, l, fuel) ==
    IF c = NoCtx \/ fuel = 0 THEN NoCtx
    ELSE IF written[c][l] # Absent THEN c
    ELSE flowFrom(creator[c], l, fuel - 1)

\* The nearest context, from c up through its creators, whose code set l.
FlowOf(c, l) == flowFrom(c, l, MaxCtx + 2)

FlowValue(c, l) ==
    IF FlowOf(c, l) = NoCtx THEN initialValue[l] ELSE written[FlowOf(c, l)][l]

InProgress(c) == \E i \in DOMAIN frames : frames[i].ctx = c

Siblings(A, B) ==
    /\ A # B
    /\ A # 0
    /\ B # 0
    /\ creator[A] = creator[B]

\* What l.value returns when read with context c current.
lookupFrom(c, l) == getFrom(c, l, asyncLocalData, parentContext, MaxCtx + 2)

IsCall(o) == o.op \in {"runInScope", "withValue"}

RECURSIVE nthParent(_, _)
nthParent(c, n) ==
    IF n = 0 \/ c = NoCtx THEN c ELSE nthParent(parentContext[c], n - 1)

\* The distances from current() at which a context binds l.
BindingAt(l) ==
    {n \in 0..(MaxCtx + 1) :
        LET c == nthParent(current(contextStack), n)
        IN  c # NoCtx /\ asyncLocalData[c][l] # Absent}

NearestBinding(l) ==
    nthParent(current(contextStack),
              CHOOSE n \in BindingAt(l) : \A m \in BindingAt(l) : n <= m)

\* C3: l.value is the binding of l in the nearest context on the parent
\* chain from current() that has one, a binding of undefined included, and
\* the initial value of l when no context on the chain has one.
C3_LookupResult ==
    \A l \in locals :
        getValue(l) = IF BindingAt(l) = {} THEN initialValue[l]
                      ELSE asyncLocalData[NearestBinding(l)][l]

\* A grandchild with no set of its own reads the binding of undefined of
\* its grandparent.
C3_Witness ==
    \E l \in locals :
        LET c == current(contextStack)
        IN  /\ asyncLocalData[c][l] = Absent
            /\ parentContext[c] # NoCtx
            /\ asyncLocalData[parentContext[c]][l] = Absent
            /\ parentContext[parentContext[c]] # NoCtx
            /\ asyncLocalData[parentContext[parentContext[c]]][l] = Undefined
            /\ getValue(l) = Undefined
            /\ initialValue[l] # Undefined

RECURSIVE creators(_, _)
creators(c, fuel) ==
    IF c = NoCtx \/ fuel = 0 THEN {} ELSE {c} \cup creators(creator[c], fuel - 1)

\* The contexts c descends from.
ProperAncestors(c) ==
    IF c = NoCtx THEN {} ELSE creators(creator[c], MaxCtx + 1)

\* C4: a step that writes a binding from the code of a context (a set, or
\* the set of withValue) leaves what l.value reads in every context that
\* one descends from as it was; and code whose own context has set l reads
\* that value, whatever its children have set since.
C4_Restoring ==
    /\ [](\A l \in locals :
            written[Running][l] # Absent => getValue(l) = written[Running][l])
    /\ [][asyncLocalData' # asyncLocalData =>
            \A l \in Locals : \A p \in ProperAncestors(Running)' :
                lookupFrom(p, l)' = lookupFrom(p, l)]_vars

\* The bottom context set l, two children of it each set another value
\* and have completed, and the bottom context's code runs again.
C4_Witness ==
    \E l \in locals : \E c1 \in Created, c2 \in Created :
        /\ frames = <<>>
        /\ Siblings(c1, c2)
        /\ creator[c1] = 0
        /\ written[0][l] # Absent
        /\ written[c1][l] \notin {Absent, written[0][l]}
        /\ written[c2][l] \notin {Absent, written[0][l]}

\* C5: when a runInScope or withValue call returns or raises, the context
\* stack is the one it was called with.
C5_StackBalance ==
    IsCall(outcome) => outcome.exit = outcome.entry

\* A nested call that re-entered a context already on the stack raises.
C5_Witness ==
    /\ IsCall(outcome)
    /\ outcome.status = "raise"
    /\ Len(outcome.entry) >= 2
    /\ \E i \in DOMAIN outcome.entry : outcome.entry[i] = outcome.ctx

C7_NestedWithValue ==
    /\ (frames # <<>> /\ Last(frames).op = "withValue") =>
          LET f == Last(frames)
          IN  written[f.ctx][f.local] = scoped[f.ctx][f.local]
                 => getValue(f.local) = scoped[f.ctx][f.local]
    /\ (outcome.op = "withValue"
        /\ FlowValue(Running, outcome.local) = outcome.pre)
          => getValue(outcome.local) = outcome.pre

\* An inner withValue(b) raised inside the callback of an outer
\* withValue(a), a # b, and the outer callback reads a again.
C7_Witness ==
    /\ outcome.op = "withValue"
    /\ outcome.status = "raise"
    /\ frames # <<>>
    /\ Last(frames).op = "withValue"
    /\ Last(frames).local = outcome.local
    /\ scoped[outcome.ctx][outcome.local] # outcome.pre
    /\ outcome.pre = scoped[Last(frames).ctx][outcome.local]
    /\ getValue(outcome.local) = outcome.pre

\* Whether the lookup of l from c comes to context F before it comes to a
\* binding of l.
RECURSIVE reaches(_, _, _, _)
reaches(c, F, l, fuel) ==
    IF c = NoCtx \/ fuel = 0 THEN FALSE
    ELSE IF c = F THEN TRUE
    ELSE IF asyncLocalData[c][l] # Absent THEN FALSE
    ELSE reaches(parentContext[c], F, l, fuel - 1)

\* C8 as claimed: a set in the current context changes what l.value reads
\* in no other context that exists when it is made.
C8_SetNotRetroactive ==
    [][\A l \in Locals, v \in Values :
          SetValue(l, v) =>
             \A c \in Created \ {current(contextStack)} :
                lookupFrom(c, l)' = lookupFrom(c, l)]_vars

\* C8 as amended: a set in the current context F writes the binding of F
\* alone, and changes what l.value reads only in contexts whose lookup
\* comes to F before any binding of l.
C8_SetWritesCurrentOnly ==
    [][\A l \in Locals, v \in Values :
          SetValue(l, v) =>
             \A c \in Created :
                /\ c # current(contextStack) =>
                      /\ asyncLocalData'[c] = asyncLocalData[c]
                      /\ parentContext'[c] = parentContext[c]
                /\ ~reaches(c, current(contextStack), l, MaxCtx + 2) =>
                      lookupFrom(c, l)' = lookupFrom(c, l)
                /\ reaches(c, current(contextStack), l, MaxCtx + 2) =>
                      lookupFrom(c, l)' = v]_vars

\* A set has just been made in a context with two children created before
\* it: one with a binding of its own, which still reads its own value, and
\* one without, which reads the new value.
C8_Witness ==
    /\ outcome.op = "set"
    /\ \E c1 \in Created, c2 \in Created :
          /\ parentContext[c1] = outcome.ctx
          /\ parentContext[c2] = outcome.ctx
          /\ asyncLocalData[c1][outcome.local] \notin {Absent, outcome.val}
          /\ lookupFrom(c1, outcome.local) # outcome.val
          /\ asyncLocalData[c2][outcome.local] = Absent
          /\ lookupFrom(c2, outcome.local) = outcome.val

Registered(reg, h) == \E i \in DOMAIN reg : reg[i] = h

\* C9: in every fan-out, the callbacks invoked among the bundles that were
\* registered when the notification arrived are exactly the registered
\* entries that implement the phase, each once, in registration order.
C9_HookDispatch ==
    \A k \in DOMAIN dispatched :
        LET d == dispatched[k]
            wasRegistered(h) == Registered(d.arrival, h)
            implements(h) == d.phase \in hookCallbacks[h]
        IN  SelectSeq(d.invoked, wasRegistered)
               = SelectSeq(d.arrival, implements)

\* C10: in every registry the program reaches, disabling a hook twice
\* leaves the registry as disabling it once does.
C10_DisableIdempotent ==
    \A h \in Hooks :
        disableHook(disableHook(asyncHookCallbacks, h), h)
            = disableHook(asyncHookCallbacks, h)

\* C11: Deno.core.setPromiseHooks is called at most once; every enable()
\* leaves the dispatcher wired; the wiring is never undone and no call is
\* ever taken back.
C11_ActivationOnce ==
    /\ [](setPromiseHooksCalls <= 1)
    /\ [](promiseTrackingEnabled <=> setPromiseHooksCalls = 1)
    /\ [][(\E h \in Hooks : Enable(h)) => setPromiseHooksCalls' = 1]_vars
    /\ [][/\ setPromiseHooksCalls' >= setPromiseHooksCalls
          /\ promiseTrackingEnabled => promiseTrackingEnabled']_vars

\* Two enable() calls and two AsyncLocal constructions have been made, a
\* hook has been disabled again, and the dispatcher was wired once.
C11_Witness ==
    /\ locals = Locals
    /\ Len(asyncHookCallbacks) = 1
    /\ \E k \in DOMAIN dispatched : Len(dispatched[k].arrival) = 2
    /\ setPromiseHooksCalls = 1

\* C12: a scope W that run(store, cb) made and whose binding was not set
\* again, with no disable() since: whenever the running code belongs to
\* the flow of W (the callback, a context created during it, a descendant
\* of one, with no nearer run / exit / enterWith), getStore() is store.
C12_StorePropagation ==
    \A W \in Created :
        ( /\ kind[W] = "scope"
          /\ scoped[W][StoreLocal] # Absent
          /\ written[W][StoreLocal] = scoped[W][StoreLocal]
          /\ W \notin disabledSince
          /\ FlowOf(Running, StoreLocal) = W )
        => getStore = scoped[W][StoreLocal]

\* The job of a promise created inside the callback of run(store, cb),
\* store not undefined, runs after run has returned and reads store.
C12_Witness ==
    \E W \in Created :
        /\ kind[W] = "scope"
        /\ scoped[W][StoreLocal] \notin {Absent, Undefined}
        /\ written[W][StoreLocal] = scoped[W][StoreLocal]
        /\ W \notin disabledSince
        /\ ~InProgress(W)
        /\ kind[Running] = "promise"
        /\ creator[Running] = W
        /\ getStore = scoped[W][StoreLocal]

\* C13: when an operation has failed because a hook callback threw, the
\* context stack is as deep when the failure reaches the caller as it was
\* when the operation started.
C13_BalancedUnderHookFailure ==
    outcome.val = HookError => Len(outcome.exit) = Len(outcome.entry)

\* C14: the context stack always has an element, its bottom element is
\* topLevelContext, and current() is its last element, never undefined.
C14_StackNeverEmpty ==
    /\ Len(contextStack) >= 1
    /\ contextStack[1] = 0
    /\ current(contextStack) = Last(contextStack)
    /\ current(contextStack) # NoCtx

\* An after hook has just been delivered for a promise while
\* topLevelContext alone was on the stack.
C14_Witness ==
    /\ outcome.op = "after"
    /\ outcome.entry = <<0>>
    /\ kind[outcome.ctx] = "promise"
    /\ contextStack = <<0>>

\* C15: when the cycles nest properly, current() is the context of the
\* innermost cycle in progress, and when the after hook of a job has run
\* the stack is the one its before hook found.
C15_WellNestedCycles ==
    /\ frames # <<>> => current(contextStack) = Last(frames).ctx
    /\ outcome.op = "job" => outcome.exit = outcome.entry

\* The job of a promise has ended inside another job of the same promise,
\* which goes on.
C15_Witness ==
    /\ outcome.op = "job"
    /\ Len(outcome.entry) >= 2
    /\ frames # <<>>
    /\ Last(frames).op = "job"
    /\ Last(frames).ctx = outcome.ctx
    /\ current(contextStack) = outcome.ctx

Contains(stack, c) == \E i \in DOMAIN stack : stack[i] = c

\* C16: an after hook for a context that is on the stack but not on top
\* takes that context off the stack (nothing in the code raises); and
\* once every before hook has had its after hook and every call has
\* completed, nothing but topLevelContext is on the stack.
C16_MismatchedAfterHandled ==
    /\ [][(/\ outcome'.op = "after"
           /\ Contains(contextStack, outcome'.ctx)
           /\ current(contextStack) # outcome'.ctx)
          => ~Contains(contextStack', outcome'.ctx)]_vars
    /\ [](frames = <<>> => contextStack = <<0>>)

\* Whether the parent links from c come to topLevelContext.
reachesRoot(c) == \E n \in 0..MaxCtx : nthParent(c, n) = 0

\* C17: topLevelContext has no parent, the parent links from every
\* context come to topLevelContext, and no lookup runs for ever.
C17_ParentChainAcyclic ==
    /\ parentContext[0] = NoCtx
    /\ \A c \in Created :
          /\ reachesRoot(c)
          /\ \A l \in locals : lookupFrom(c, l) # Diverges

\* C18: no step changes the parent of a context that exists.
C18_ParentWriteOnce ==
    [][\A c \in Created : parentContext'[c] = parentContext[c]]_vars

\* C19: a set or a withValue on one AsyncLocal changes what another
\* AsyncLocal reads in no context that exists, and the scope withValue
\* makes reads for the other AsyncLocal what its caller read.
C19_LocalsIndependent ==
    [][\A l1 \in Locals, l2 \in Locals, v \in Values \cup {"b"} :
          ( /\ l1 # l2
            /\ SetValue(l1, v) \/ WithValueEnter(l1, v, NoBeh, NoBeh) )
          => /\ \A c \in Created : lookupFrom(c, l2)' = lookupFrom(c, l2)
             /\ getValue(l2)' = getValue(l2)]_vars

\* A set on one AsyncLocal has just been made in a context that holds a
\* binding of another AsyncLocal with another value, which is still read.
C19_Witness ==
    /\ outcome.op = "set"
    /\ \E l2 \in locals :
          /\ l2 # outcome.local
          /\ asyncLocalData[outcome.ctx][l2] \notin {Absent, outcome.val}
          /\ getValue(l2) = asyncLocalData[outcome.ctx][l2]

\* The trigger ids the constructor is to accept.
ValidTrigger(n) == n.form = "int" /\ n.v >= -1

\* C20: a construction with a non-empty string type raises
\* ERR_INVALID_ASYNC_ID exactly when the resolved trigger id is not a safe
\* integer or is below -1; with a valid trigger id it succeeds, makes one
\* context whose parent is the current context, and leaves the stack.
C20_ResourceValidation ==
    (resource.status # None /\ resource.type \notin {"", NotAString}) =>
        /\ (resource.status = "raise"
               /\ resource.error = "ERR_INVALID_ASYNC_ID")
              <=> ~ValidTrigger(resource.trigger)
        /\ ValidTrigger(resource.trigger) =>
              /\ resource.status = "return"
              /\ resource.made = 1
              /\ resource.ctx \in Created
              /\ parentContext[resource.ctx] = current(resource.entry)
              /\ resource.exit = resource.entry

====
